---- MODULE Spec2Model ----
(***************************************************************************)
(* PJAText2: the flag engine (Engine), its Instruction builder, the        *)
(* command registry (CommandsHolder) and the registered commands.          *)
(* A String is a TLA+ string; Len, \o, SubSeq work on it character by      *)
(* character, so the parsing and the rendering are computed, not assumed.  *)
(***************************************************************************)
EXTENDS Integers, Sequences, FiniteSets, TLC

VARIABLES
    commands,     \* Engine::commands   (CommandsHolder: callers, aliases, commands, id)
    outputs,      \* Engine::outputs    (Vec<Output>)
    operations,   \* Engine::operations (Operations)
    files,        \* the file system: file name -> content, for the files that exist
    build,        \* what the build fixes: the iteration order of std::unordered_map
    run,          \* observation of the last Engine::execute call (NoRun when returned)
    calls,        \* number of Engine::execute calls made on this Engine
    added         \* the commands a client handed to Engine::add, in order

vars == <<commands, outputs, operations, files, build, run, calls, added>>

(***************************************************************************)
(* Bounds of the model.                                                    *)
(***************************************************************************)
MaxTokens == 4      \* longest raw_args of the single-call specification
MaxFlags == 2       \* most flag groups in one command line of the multi-call specification
MaxCalls == 2       \* most Engine::execute calls on one Engine
MaxAdds == 2        \* most Engine::add calls of a client on one Engine

(***************************************************************************)
(* Strings.                                                                *)
(***************************************************************************)
Min(S) == CHOOSE m \in S : \A n \in S : m <= n
Max(S) == CHOOSE m \in S : \A n \in S : m >= n

\* the character class \s of the regular expressions
IsSpace(c) == c \in {" ", "\t", "\n", "\r", "\f"}

\* CountDigits::digits
digits == {"0", "1", "2", "3", "4", "5", "6", "7", "8", "9"}

\* CountDigits::is_digit
is_digit(ch) == ch \in digits

\* matches_to_vec for the regex (?!\s)[\S]+ : the maximal runs of non-space
\* characters, left to right
RECURSIVE matches_to_vec(_, _, _, _)
matches_to_vec(target, i, word, acc) ==
    IF i > Len(target)
    THEN IF word = "" THEN acc ELSE Append(acc, word)
    ELSE LET c == SubSeq(target, i, i)
         IN  IF IsSpace(c)
             THEN matches_to_vec(target, i + 1, "",
                                 IF word = "" THEN acc ELSE Append(acc, word))
             ELSE matches_to_vec(target, i + 1, word \o c, acc)

get_words(target) == matches_to_vec(target, 1, "", <<>>)

\* std::count / std::count_if: how many characters of s, from i on, are in the set
RECURSIVE count_chars(_, _, _)
count_chars(s, i, set) ==
    IF i > Len(s) THEN 0
    ELSE (IF SubSeq(s, i, i) \in set THEN 1 ELSE 0) + count_chars(s, i + 1, set)

(***************************************************************************)
(* Option<T>: a vector holding one value, or none.                         *)
(***************************************************************************)
some(value) == <<value>>
none == <<>>
is_none(o) == o = <<>>
is_some(o) == ~is_none(o)
get_value(o) == o[1]

(***************************************************************************)
(* Output.                                                                 *)
(***************************************************************************)
new_ok(message) == [res |-> "Ok", msg |-> message]
new_err(message) == [res |-> "Err", msg |-> message]
is_ok(output) == output.res = "Ok"
is_err(output) == output.res = "Err"

(***************************************************************************)
(* Operations: the run state.                                              *)
(***************************************************************************)
Operations == [file_in |-> "", file_out |-> "", source |-> "", is_panicked |-> FALSE]

(***************************************************************************)
(* Flag and Instruction.                                                   *)
(***************************************************************************)
\* Flag(): the constructor only builds and drops a temporary, so name and arg
\* are empty, mod is 0 and pos keeps an indeterminate value g
Flag(g) == [name |-> "", arg |-> "", pos |-> g, mod |-> 0]

is_empty(flag) == flag.arg = ""
exists(flag) == flag.name # ""

\* a parse that leaves the argument as it was accumulated
parse_keeps_separator(flag) == flag

\* Flag::parse: drops the last character of a non-empty argument
parse(flag) ==
    IF flag.arg # ""
    THEN [flag EXCEPT !.arg = SubSeq(flag.arg, 1, Len(flag.arg) - 1)]
    ELSE flag

name_in(flag, names) == \E k \in 1..Len(names) : flag.name = names[k]

\* the loop of Instruction::from_vec_string, at token i
RECURSIVE from_vec_loop(_, _, _, _, _, _)
from_vec_loop(vec_s, i, position, flags, flag, g) ==
    IF i > Len(vec_s) THEN flags
    ELSE
      LET arg == vec_s[i] IN
      IF arg = "" THEN from_vec_loop(vec_s, i + 1, position, flags, flag, g)
      ELSE
        LET is_flag == SubSeq(arg, 1, 1) = "-"
            pushed  == is_flag /\ exists(flag)
            flags1  == IF pushed THEN Append(flags, parse(flag)) ELSE flags
            flag0   == IF pushed THEN Flag(g) ELSE flag
            flag1   == IF is_flag
                       THEN [flag0 EXCEPT !.name = arg, !.pos = position]
                       ELSE IF exists(flag)
                            THEN [flag EXCEPT !.arg = flag.arg \o arg \o " "]
                            ELSE flag
            pos1    == IF is_flag THEN position + 1 ELSE position
        IN  IF i = Len(vec_s)
            THEN Append(flags1, parse(flag1))
            ELSE from_vec_loop(vec_s, i + 1, pos1, flags1, flag1, g)

\* Instruction::from_vec_string; an Instruction is its Vec<Flag>
from_vec_string(vec_s, g) == from_vec_loop(vec_s, 1, 0, <<>>, Flag(g), g)

size(inst) == Len(inst)

\* Instruction::get_flag_ptr: the index of the first flag at that position, 0 for nullptr
get_flag_ptr(inst, index) ==
    LET hits == {k \in 1..Len(inst) : inst[k].pos = index}
    IN  IF hits = {} THEN 0 ELSE Min(hits)

\* Instruction::get_flag(usize): a copy of the first flag at that position
get_flag(inst, index) ==
    IF get_flag_ptr(inst, index) = 0 THEN none ELSE some(inst[get_flag_ptr(inst, index)])

flag_exists(inst, caller, alias) ==
    \E k \in 1..Len(inst) : inst[k].name = caller \/ inst[k].name = alias

(***************************************************************************)
(* File: the file primitives, over the variable files.                     *)
(***************************************************************************)
File_exists(file_name) == file_name \in DOMAIN files

\* the do-while of File::read_unchecked: getline takes the text up to the next
\* '\n' (or up to the end, which sets eof and ends the loop); every line read is
\* appended with a '\n'
RECURSIVE read_loop(_, _)
read_loop(rest, content) ==
    LET ends == {k \in 1..Len(rest) : SubSeq(rest, k, k) = "\n"}
    IN  IF ends = {}
        THEN content \o rest \o "\n"
        ELSE read_loop(SubSeq(rest, Min(ends) + 1, Len(rest)),
                       content \o SubSeq(rest, 1, Min(ends) - 1) \o "\n")

read_unchecked(file_name) == read_loop(files[file_name], "")

\* File::write_unchecked: truncates (or creates) the file and writes content
write_unchecked(fs, file_name, content) ==
    [n \in (DOMAIN fs) \cup {file_name} |-> IF n = file_name THEN content ELSE fs[n]]

(***************************************************************************)
(* The commands: the caller and the alias of every Command type.  Besides  *)
(* the types of app_commands.h there are types of a client of the Engine,  *)
(* which implement the abstract Command: Failing and FailingMute (their    *)
(* execute returns an error Output, with and without a message), FileInput *)
(* (the caller of one base command, the alias of another), OtherFile (a    *)
(* new caller, the alias of a base command), Talking (its validate returns *)
(* a success Output with a message), Refusing (its validate returns an     *)
(* error Output without a message), Crossed (its caller is the alias of    *)
(* CountWords) and WordsToo (the caller of CountWords, a new alias).       *)
(***************************************************************************)
caller(command) ==
    CASE command = "SourceFile" -> "-f"
      [] command = "InputFile" -> "-i"
      [] command = "OutputFile" -> "-o"
      [] command = "CountLines" -> "-n"
      [] command = "CountDigits" -> "-d"
      [] command = "CountNumbers" -> "-dd"
      [] command = "CountChars" -> "-c"
      [] command = "CountWords" -> "-w"
      [] command = "ShowAnagrams" -> "-a"
      [] command = "ShowPalindromes" -> "-p"
      [] command = "ShowWords" -> "-s"
      [] command = "ShowWordsReverse" -> "-rs"
      [] command = "ShowFileSize" -> "-si"
      [] command = "WordsConsiderLength" -> "-l"
      [] command = "Failing" -> "-x"
      [] command = "FailingMute" -> "-y"
      [] command = "FileInput" -> "-f"
      [] command = "OtherFile" -> "-q"
      [] command = "Talking" -> "-t"
      [] command = "Refusing" -> "-r"
      [] command = "Crossed" -> "--words"
      [] command = "WordsToo" -> "-w"

alias(command) ==
    CASE command = "SourceFile" -> "--file"
      [] command = "InputFile" -> "--input"
      [] command = "OutputFile" -> "--output"
      [] command = "CountLines" -> "--newlines"
      [] command = "CountDigits" -> "--digits"
      [] command = "CountNumbers" -> "--numbers"
      [] command = "CountChars" -> "--chars"
      [] command = "CountWords" -> "--words"
      [] command = "ShowAnagrams" -> "--anagrams"
      [] command = "ShowPalindromes" -> "--palindromes"
      [] command = "ShowWords" -> "--sorted"
      [] command = "ShowWordsReverse" -> "--reverse-sorted"
      [] command = "ShowFileSize" -> "--size"
      [] command = "WordsConsiderLength" -> "--by-length"
      [] command = "Failing" -> "--failing"
      [] command = "FailingMute" -> "--failing-mute"
      [] command = "FileInput" -> "--input"
      [] command = "OtherFile" -> "--file"
      [] command = "Talking" -> "--talking"
      [] command = "Refusing" -> "--refusing"
      [] command = "Crossed" -> "--crossed"
      [] command = "WordsToo" -> "--words-too"

(***************************************************************************)
(* CommandsHolder: three maps keyed by the id of insertion.                *)
(***************************************************************************)
CommandsHolder == [callers |-> <<>>, aliases |-> <<>>, commands |-> <<>>, id |-> 0]

\* CommandsHolder::add
holder_add(h, command_ptr) ==
    [callers  |-> (h.id :> caller(command_ptr)) @@ h.callers,
     aliases  |-> (h.id :> alias(command_ptr)) @@ h.aliases,
     commands |-> (h.id :> command_ptr) @@ h.commands,
     id       |-> h.id + 1]

\* an exists that wants the caller and the alias on one and the same entry
holder_exists_same_entry(h, c, a) ==
    \E k \in DOMAIN h.callers : h.callers[k] = c /\ h.aliases[k] = a

\* CommandsHolder::exists: a caller match and an alias match, each on any entry
holder_exists(h, c, a) ==
    LET found_caller == \E k \in DOMAIN h.callers : h.callers[k] = c
    IN  IF ~found_caller THEN FALSE
        ELSE \E k \in DOMAIN h.aliases : h.aliases[k] = a

\* the first of these keys that a loop over a HashMap meets: the order of
\* std::unordered_map is unspecified and fixed by the build; the ids were
\* inserted in ascending order
first_key(keys) == IF build.mapOrder = "insertion" THEN Min(keys) ELSE Max(keys)

\* CommandsHolder::get_by_caller
get_by_caller(h, c) ==
    LET hits == {k \in DOMAIN h.callers : h.callers[k] = c}
    IN  IF hits = {} THEN none ELSE some(h.commands[first_key(hits)])

\* CommandsHolder::get_by_alias
get_by_alias(h, a) ==
    LET hits == {k \in DOMAIN h.aliases : h.aliases[k] = a}
    IN  IF hits = {} THEN none ELSE some(h.commands[first_key(hits)])

\* an add that registers the command whatever the registry holds
Engine_add_always(h, command_generic) == holder_add(h, command_generic)

\* Engine::add: a command whose caller and alias are found is ignored
Engine_add(h, command_generic) ==
    IF holder_exists(h, caller(command_generic), alias(command_generic))
    THEN h
    ELSE holder_add(h, command_generic)

RECURSIVE add_all(_, _)
add_all(h, cmds) ==
    IF cmds = <<>> THEN h ELSE add_all(Engine_add(h, Head(cmds)), Tail(cmds))

\* Engine::add_base_commands, called by the constructor
add_base_commands(h) == add_all(h, <<"SourceFile", "InputFile", "OutputFile">>)

\* create_engine: Engine() and the eleven add calls, in their order
create_engine ==
    add_all(add_base_commands(CommandsHolder),
            <<"CountChars", "CountDigits", "CountLines", "CountNumbers", "CountWords",
              "ShowAnagrams", "ShowFileSize", "ShowPalindromes", "ShowWords",
              "ShowWordsReverse", "WordsConsiderLength">>)

(***************************************************************************)
(* Command::validate and Command::execute of every command.  A validate    *)
(* yields its Output, the Instruction (its flags' mod may have been set),  *)
(* the run state, and io: the file primitives it called, in order.         *)
(***************************************************************************)
\* __Helpers::Info::flag_string_stream
flag_string_stream(flag) == "<" \o flag.name \o "> "

Validated(output, inst, ops, io) ==
    [output |-> output, inst |-> inst, operations |-> ops, io |-> io]

\* a validate of -f that records the argument as the input file before it
\* tests that the file exists
SourceFile_validate_records_first(flag, inst, ops) ==
    IF flag.arg = ""
    THEN Validated(new_err(flag_string_stream(flag) \o "This flag requires an argument!"),
                   inst, ops, <<>>)
    ELSE IF ~File_exists(flag.arg)
    THEN Validated(new_err(flag_string_stream(flag) \o "Provided file doesn't exists!"),
                   inst, [ops EXCEPT !.file_in = flag.arg], << <<"exists", flag.arg>> >>)
    ELSE Validated(new_ok(""), inst,
                   [ops EXCEPT !.file_in = flag.arg, !.source = read_unchecked(flag.arg)],
                   << <<"exists", flag.arg>>, <<"read", flag.arg>> >>)

\* BaseCommands::SourceFile::validate
SourceFile_validate(flag, inst, ops) ==
    IF flag.arg = ""
    THEN Validated(new_err(flag_string_stream(flag) \o "This flag requires an argument!"),
                   inst, ops, <<>>)
    ELSE IF ~File_exists(flag.arg)
    THEN Validated(new_err(flag_string_stream(flag) \o "Provided file doesn't exists!"),
                   inst, ops, << <<"exists", flag.arg>> >>)
    ELSE Validated(new_ok(""), inst,
                   [ops EXCEPT !.file_in = flag.arg, !.source = read_unchecked(flag.arg)],
                   << <<"exists", flag.arg>>, <<"read", flag.arg>> >>)

InputFile_validate(flag, inst, ops) == Validated(new_ok(""), inst, ops, <<>>)

OutputFile_validate(flag, inst, ops) ==
    IF flag.arg = ""
    THEN Validated(new_err(flag_string_stream(flag) \o "This flag requires an argument!"),
                   inst, ops, <<>>)
    ELSE Validated(new_ok(""), inst, [ops EXCEPT !.file_out = flag.arg], <<>>)

\* validate of the counting commands, ShowWords, ShowWordsReverse and ShowFileSize
Trivial_validate(flag, inst, ops) == Validated(new_ok(""), inst, ops, <<>>)

\* validate of a client's command that succeeds with a message
Talking_validate(flag, inst, ops) ==
    Validated(new_ok(flag_string_stream(flag) \o "Validated"), inst, ops, <<>>)

\* validate of a client's command that fails with an empty message
Refusing_validate(flag, inst, ops) == Validated(new_err(""), inst, ops, <<>>)

\* a validate of -a and -p that tests the argument before the place
LastWithArgument_validate_argument_first(flag, inst, ops) ==
    IF flag.arg = ""
    THEN Validated(new_err(flag_string_stream(flag) \o "This flag requires an argument!"),
                   inst, ops, <<>>)
    ELSE IF is_some(get_flag(inst, flag.pos + 1))
    THEN Validated(new_err(flag_string_stream(flag) \o "This flag should be the last one"),
                   inst, ops, <<>>)
    ELSE Validated(new_ok(""), inst, ops, <<>>)

\* validate of ShowAnagrams and of ShowPalindromes (the same code)
LastWithArgument_validate(flag, inst, ops) ==
    IF is_some(get_flag(inst, flag.pos + 1))
    THEN Validated(new_err(flag_string_stream(flag) \o "This flag should be the last one"),
                   inst, ops, <<>>)
    ELSE IF flag.arg = ""
    THEN Validated(new_err(flag_string_stream(flag) \o "This flag requires an argument!"),
                   inst, ops, <<>>)
    ELSE Validated(new_ok(""), inst, ops, <<>>)

\* a validate of -l that sets the modifier of whatever flag comes next
WordsConsiderLength_validate_any_next(flag, inst, ops) ==
    LET flag_after_ptr == get_flag_ptr(inst, flag.pos + 1) IN
    IF flag_after_ptr # 0
    THEN Validated(new_ok(""), [inst EXCEPT ![flag_after_ptr].mod = 1], ops, <<>>)
    ELSE Validated(new_err(flag_string_stream(flag) \o "This flag can't be the last one!"),
                   inst, ops, <<>>)

\* WordsConsiderLength::validate
WordsConsiderLength_validate(flag, inst, ops) ==
    LET flag_after_ptr == get_flag_ptr(inst, flag.pos + 1) IN
    IF flag_after_ptr # 0
    THEN IF name_in(inst[flag_after_ptr], <<"-l", "--by-length">>)
         THEN Validated(new_ok(""), inst, ops, <<>>)
         ELSE IF ~name_in(inst[flag_after_ptr], <<"-rs", "--reverse-sorted", "-s", "--sorted">>)
         THEN Validated(new_err(flag_string_stream(flag)
                                \o "Missing required flag after this one!"),
                        inst, ops, <<>>)
         ELSE Validated(new_ok(""), [inst EXCEPT ![flag_after_ptr].mod = 1], ops, <<>>)
    ELSE Validated(new_err(flag_string_stream(flag) \o "This flag can't be the last one!"),
                   inst, ops, <<>>)

\* the virtual call command->validate(flag, inst, operations)
validate(command, flag, inst, ops) ==
    CASE command = "SourceFile" -> SourceFile_validate(flag, inst, ops)
      [] command = "InputFile" -> InputFile_validate(flag, inst, ops)
      [] command = "OutputFile" -> OutputFile_validate(flag, inst, ops)
      [] command \in {"ShowAnagrams", "ShowPalindromes"} ->
             LastWithArgument_validate(flag, inst, ops)
      [] command = "WordsConsiderLength" -> WordsConsiderLength_validate(flag, inst, ops)
      [] command = "Talking" -> Talking_validate(flag, inst, ops)
      [] command = "Refusing" -> Refusing_validate(flag, inst, ops)
      [] OTHER -> Trivial_validate(flag, inst, ops)

\* the character class \w of the regular expressions
WordChars ==
    digits \cup {"_"} \cup
    {"a", "b", "c", "d", "e", "f", "g", "h", "i", "j", "k", "l", "m",
     "n", "o", "p", "q", "r", "s", "t", "u", "v", "w", "x", "y", "z",
     "A", "B", "C", "D", "E", "F", "G", "H", "I", "J", "K", "L", "M",
     "N", "O", "P", "Q", "R", "S", "T", "U", "V", "W", "X", "Y", "Z"}

\* the end of the run of digits that starts at k
RECURSIVE digits_end(_, _)
digits_end(s, k) ==
    IF k < Len(s) /\ is_digit(SubSeq(s, k + 1, k + 1)) THEN digits_end(s, k + 1) ELSE k

\* count_matches for the regex (^|\s)[0-9]+(?!\w): a run of digits that starts
\* the text or follows a space, and is not followed by a word character
count_numbers(s) ==
    Cardinality({k \in 1..Len(s) :
        /\ is_digit(SubSeq(s, k, k))
        /\ k = 1 \/ IsSpace(SubSeq(s, k - 1, k - 1))
        /\ LET e == digits_end(s, k)
           IN  e = Len(s) \/ SubSeq(s, e + 1, e + 1) \notin WordChars})

CountLines_execute(flag, ops) ==
    new_ok(flag_string_stream(flag) \o "New lines: "
           \o ToString(count_chars(ops.source, 1, {"\n"})))

CountDigits_execute(flag, ops) ==
    new_ok(flag_string_stream(flag) \o "Digits: "
           \o ToString(count_chars(ops.source, 1, digits)))

CountNumbers_execute(flag, ops) ==
    new_ok(flag_string_stream(flag) \o "Numbers: " \o ToString(count_numbers(ops.source)))

\* source.length() - 1; the source of an executed run ends with the '\n' that
\* read_unchecked appends, so the unsigned subtraction does not wrap
CountChars_execute(flag, ops) ==
    new_ok(flag_string_stream(flag) \o "Chars: " \o ToString(Len(ops.source) - 1))

CountWords_execute(flag, ops) ==
    new_ok(flag_string_stream(flag) \o "Words: " \o ToString(Len(get_words(ops.source))))

\* execute of SourceFile, InputFile, OutputFile and WordsConsiderLength
Silent_execute(flag, ops) == new_ok("")

\* __Helpers::Info::flag_string_stream_structure: the lines of the collection
RECURSIVE structure_lines(_)
structure_lines(collection) ==
    IF collection = <<>> THEN ""
    ELSE "    \"" \o Head(collection) \o "\",\n" \o structure_lines(Tail(collection))

\* __Helpers::Info::flag_string_stream_structure
flag_string_stream_structure(flag, collection) ==
    flag_string_stream(flag)
        \o (IF collection = <<>> THEN "{ }"
            ELSE "{\n" \o structure_lines(collection) \o "}")

\* the characters of the texts of the model, in the order of their codes
Ascii == " -0123456789ABCDEFGHIJKLMNOPQRSTUVWXYZ_abcdefghijklmnopqrstuvwxyz"

Code(ch) == CHOOSE i \in 1..Len(Ascii) : SubSeq(Ascii, i, i) = ch

\* left < right of two Strings: the first differing character decides, a
\* proper prefix is less
RECURSIVE string_less(_, _)
string_less(left, right) ==
    IF right = "" THEN FALSE
    ELSE IF left = "" THEN TRUE
    ELSE IF SubSeq(left, 1, 1) # SubSeq(right, 1, 1)
    THEN Code(SubSeq(left, 1, 1)) < Code(SubSeq(right, 1, 1))
    ELSE string_less(SubSeq(left, 2, Len(left)), SubSeq(right, 2, Len(right)))

\* the comparator of __Helpers::Comparators::get_default<String>(as_size)
get_default(as_size, left, right) ==
    IF as_size THEN Len(left) < Len(right) ELSE string_less(left, right)

\* the comparator of __Helpers::Comparators::get_reverse<String>(as_size)
get_reverse(as_size, left, right) ==
    IF as_size THEN Len(left) > Len(right) ELSE string_less(right, left)

\* the comparator that a sort command uses
comparator(reverse, as_size, left, right) ==
    IF reverse THEN get_reverse(as_size, left, right)
    ELSE get_default(as_size, left, right)

\* word put into the sorted words.  std::sort leaves the order of the elements
\* that the comparator does not order unspecified: the build fixes whether
\* they stay in the order of the text or come out reversed
sort_insert(sorted, word, reverse, as_size) ==
    LET before == {k \in 1..Len(sorted) :
                      IF build.sortTies = "kept"
                      THEN ~comparator(reverse, as_size, word, sorted[k])
                      ELSE comparator(reverse, as_size, sorted[k], word)}
        n      == Cardinality(before)
    IN  SubSeq(sorted, 1, n) \o <<word>> \o SubSeq(sorted, n + 1, Len(sorted))

\* std::sort(words.begin(), words.end(), comparator)
RECURSIVE std_sort(_, _, _)
std_sort(words, reverse, as_size) ==
    IF words = <<>> THEN <<>>
    ELSE sort_insert(std_sort(SubSeq(words, 1, Len(words) - 1), reverse, as_size),
                     words[Len(words)], reverse, as_size)

\* a ShowWords::execute that sorts by text whatever the modifier of its flag
ShowWords_execute_by_text(flag, ops) ==
    new_ok(flag_string_stream_structure(
               flag, std_sort(get_words(ops.source), FALSE, FALSE)))

\* ShowWords::execute
ShowWords_execute(flag, ops) ==
    new_ok(flag_string_stream_structure(
               flag, std_sort(get_words(ops.source), FALSE, flag.mod = 1)))

\* std::sort of the characters of a String
RECURSIVE sort_chars(_)
sort_chars(str) ==
    IF str = "" THEN ""
    ELSE LET rest == sort_chars(SubSeq(str, 1, Len(str) - 1))
             ch   == SubSeq(str, Len(str), Len(str))
             n    == Cardinality({k \in 1..Len(rest) : Code(SubSeq(rest, k, k)) <= Code(ch)})
         IN  SubSeq(rest, 1, n) \o ch \o SubSeq(rest, n + 1, Len(rest))

\* __Helpers::Strings::are_anagrams
are_anagrams(first, second) ==
    IF Len(first) # Len(second) THEN FALSE
    ELSE sort_chars(first) = sort_chars(second)

\* std::reverse of a String
RECURSIVE reverse(_)
reverse(str) ==
    IF str = "" THEN ""
    ELSE reverse(SubSeq(str, 2, Len(str))) \o SubSeq(str, 1, 1)

\* __Helpers::Strings::are_palindromes
are_palindromes(first, second) ==
    IF Len(first) # Len(second) THEN FALSE
    ELSE first = reverse(second)

\* the two loops of ShowAnagrams::execute and of ShowPalindromes::execute: every
\* word of the source, once for every word of the flag that matches it
matching(words_source, words_flag, palindromes) ==
    LET hits(first) ==
            SelectSeq(words_flag,
                      LAMBDA second : IF palindromes THEN are_palindromes(first, second)
                                      ELSE are_anagrams(first, second))
        F[i \in 0..Len(words_source)] ==
            IF i = 0 THEN <<>>
            ELSE F[i - 1] \o [j \in 1..Len(hits(words_source[i])) |-> words_source[i]]
    IN  F[Len(words_source)]

\* erase(std::unique(...)): of every run of equal elements the first is kept
unique(vec) ==
    SelectSeq([i \in 1..Len(vec) |-> <<vec[i], i = 1 \/ vec[i] # vec[i - 1]>>],
              LAMBDA e : e[2])

\* ShowAnagrams::execute
ShowAnagrams_execute(flag, ops) ==
    LET found == unique(matching(get_words(ops.source), get_words(flag.arg), FALSE))
    IN  new_ok(flag_string_stream_structure(flag, [i \in 1..Len(found) |-> found[i][1]]))

\* ShowPalindromes::execute
ShowPalindromes_execute(flag, ops) ==
    LET found == unique(matching(get_words(ops.source), get_words(flag.arg), TRUE))
    IN  new_ok(flag_string_stream_structure(flag, [i \in 1..Len(found) |-> found[i][1]]))

\* ShowWordsReverse::execute
ShowWordsReverse_execute(flag, ops) ==
    new_ok(flag_string_stream_structure(
               flag, std_sort(get_words(ops.source), TRUE, flag.mod = 1)))

\* execute of a client's command that fails: an error Output with a message
Failing_execute(flag, ops) == new_err(flag_string_stream(flag) \o "Failed")

\* execute of a client's command that fails with an empty message
FailingMute_execute(flag, ops) == new_err("")

\* execute of a client's command that reports its name
Named_execute(command, flag, ops) == new_ok(flag_string_stream(flag) \o command)

\* the virtual call command->execute(flag, operations)
execute(command, flag, ops) ==
    CASE command = "CountLines" -> CountLines_execute(flag, ops)
      [] command = "CountDigits" -> CountDigits_execute(flag, ops)
      [] command = "CountNumbers" -> CountNumbers_execute(flag, ops)
      [] command = "CountChars" -> CountChars_execute(flag, ops)
      [] command = "CountWords" -> CountWords_execute(flag, ops)
      [] command \in {"SourceFile", "InputFile", "OutputFile", "WordsConsiderLength"} ->
             Silent_execute(flag, ops)
      [] command = "ShowAnagrams" -> ShowAnagrams_execute(flag, ops)
      [] command = "ShowPalindromes" -> ShowPalindromes_execute(flag, ops)
      [] command = "ShowWords" -> ShowWords_execute(flag, ops)
      [] command = "ShowWordsReverse" -> ShowWordsReverse_execute(flag, ops)
      [] command = "Failing" -> Failing_execute(flag, ops)
      [] command = "FailingMute" -> FailingMute_execute(flag, ops)
      [] command \in {"FileInput", "OtherFile", "Talking", "Refusing"} ->
             Silent_execute(flag, ops)
      [] command \in {"Crossed", "WordsToo"} -> Named_execute(command, flag, ops)

(***************************************************************************)
(* Engine.                                                                 *)
(***************************************************************************)
\* a map in which the flag of a command already there is kept
map_put_keeps_first(m, command, flag) ==
    IF \E k \in 1..Len(m) : m[k].command = command
    THEN m
    ELSE Append(m, [command |-> command, flag |-> flag])

\* HashMap<Command*, Flag> validated_commands, kept as its entries in the order
\* of first insertion; operator[] replaces the flag of a command already there
map_put(m, command, flag) ==
    IF \E k \in 1..Len(m) : m[k].command = command
    THEN [k \in 1..Len(m) |->
             IF m[k].command = command THEN [command |-> command, flag |-> flag] ELSE m[k]]
    ELSE Append(m, [command |-> command, flag |-> flag])

\* the order in which a loop over the HashMap meets its entries: unspecified
\* by std::unordered_map, fixed by the build
map_iter(m) ==
    IF build.mapOrder = "insertion" THEN m
    ELSE [k \in 1..Len(m) |-> m[Len(m) + 1 - k]]

\* Engine::clear
clear == [outputs |-> <<>>, operations |-> Operations]

\* a loop of grab_output that renders the Outputs without a message too
RECURSIVE output_stream_keeps_empty(_)
output_stream_keeps_empty(outs) ==
    IF outs = <<>> THEN ""
    ELSE LET output  == Head(outs)
             message == output.msg
             result  == IF is_ok(output) THEN "[SUCCESS]" ELSE "[ERROR]"
         IN  result \o ": " \o message \o "\n" \o output_stream_keeps_empty(Tail(outs))

\* the loop of Engine::grab_output: one line per Output with a message
RECURSIVE output_stream(_)
output_stream(outs) ==
    IF outs = <<>> THEN ""
    ELSE LET output  == Head(outs)
             message == output.msg
             result  == IF is_ok(output) THEN "[SUCCESS]" ELSE "[ERROR]"
         IN  (IF message = "" THEN "" ELSE result \o ": " \o message \o "\n")
             \o output_stream(Tail(outs))

\* grab_output that empties the Outputs and leaves the run state as the run
\* made it
grab_output_keeps_operations(outs, ops) ==
    IF ops.file_out # ""
    THEN [ret |-> "", outputs |-> outs, operations |-> ops,
          files |-> write_unchecked(files, ops.file_out, output_stream(outs)),
          io |-> << <<"write", ops.file_out>> >>]
    ELSE [ret |-> output_stream(outs), outputs |-> clear.outputs,
          operations |-> ops, files |-> files, io |-> <<>>]

\* grab_output that clears the Engine also after it wrote the output file
grab_output_clears_after_write(outs, ops) ==
    IF ops.file_out # ""
    THEN [ret |-> "", outputs |-> clear.outputs, operations |-> clear.operations,
          files |-> write_unchecked(files, ops.file_out, output_stream(outs)),
          io |-> << <<"write", ops.file_out>> >>]
    ELSE [ret |-> output_stream(outs), outputs |-> clear.outputs,
          operations |-> clear.operations, files |-> files, io |-> <<>>]

\* grab_output that returns the report also when it wrote it to the output file
grab_output_returns_report(outs, ops) ==
    IF ops.file_out # ""
    THEN [ret |-> output_stream(outs), outputs |-> outs, operations |-> ops,
          files |-> write_unchecked(files, ops.file_out, output_stream(outs)),
          io |-> << <<"write", ops.file_out>> >>]
    ELSE [ret |-> output_stream(outs), outputs |-> clear.outputs,
          operations |-> clear.operations, files |-> files, io |-> <<>>]

\* Engine::grab_output on the Outputs outs and the run state ops: the String
\* returned and the Engine and the files it leaves
grab_output(outs, ops) ==
    IF ops.file_out # ""
    THEN [ret |-> "", outputs |-> outs, operations |-> ops,
          files |-> write_unchecked(files, ops.file_out, output_stream(outs)),
          io |-> << <<"write", ops.file_out>> >>]
    ELSE [ret |-> output_stream(outs), outputs |-> clear.outputs,
          operations |-> clear.operations, files |-> files, io |-> <<>>]

\* input_redirection whose test of the number of flags never fires: the flag at
\* position 0 is taken for the input-file flag
input_redirection_not_exclusive(parsed, g) ==
    IF flag_exists(parsed, "-i", "--input")
    THEN LET flag_ptr == get_flag_ptr(parsed, 0) IN
         IF is_empty(parsed[flag_ptr])
         THEN [abort |-> <<new_err("<ENGINE> Input file flag requires an argument!")>>,
               inst |-> parsed, io |-> <<>>]
         ELSE IF ~File_exists(parsed[flag_ptr].arg)
         THEN [abort |->
                 <<new_err("<ENGINE> Input file flag has invalid file as an argument!")>>,
               inst |-> parsed, io |-> << <<"exists", parsed[flag_ptr].arg>> >>]
         ELSE [abort |-> <<>>,
               inst |-> from_vec_string(
                            get_words(read_unchecked(parsed[flag_ptr].arg)), g),
               io |-> << <<"exists", parsed[flag_ptr].arg>>,
                         <<"read", parsed[flag_ptr].arg>> >>]
    ELSE [abort |-> <<>>, inst |-> parsed, io |-> <<>>]

\* input_redirection that tests the Instruction read from the file as it tests
\* the one of raw_args: an input-file flag in it must be the only flag
input_redirection_rechecks(parsed, g) ==
    IF flag_exists(parsed, "-i", "--input")
    THEN IF size(parsed) # 1
         THEN [abort |-> <<new_err("<ENGINE> Input file flag should be the only one!")>>,
               inst |-> parsed, io |-> <<>>]
         ELSE LET flag_ptr == get_flag_ptr(parsed, 0) IN
              IF is_empty(parsed[flag_ptr])
              THEN [abort |-> <<new_err("<ENGINE> Input file flag requires an argument!")>>,
                    inst |-> parsed, io |-> <<>>]
              ELSE IF ~File_exists(parsed[flag_ptr].arg)
              THEN [abort |->
                      <<new_err("<ENGINE> Input file flag has invalid file as an argument!")>>,
                    inst |-> parsed, io |-> << <<"exists", parsed[flag_ptr].arg>> >>]
              ELSE [abort |->
                      IF /\ flag_exists(from_vec_string(get_words(
                                 read_unchecked(parsed[flag_ptr].arg)), g), "-i", "--input")
                         /\ size(from_vec_string(get_words(
                                 read_unchecked(parsed[flag_ptr].arg)), g)) # 1
                      THEN <<new_err("<ENGINE> Input file flag should be the only one!")>>
                      ELSE <<>>,
                    inst |-> from_vec_string(
                                 get_words(read_unchecked(parsed[flag_ptr].arg)), g),
                    io |-> << <<"exists", parsed[flag_ptr].arg>>,
                              <<"read", parsed[flag_ptr].arg>> >>]
    ELSE [abort |-> <<>>, inst |-> parsed, io |-> <<>>]

\* input_redirection that keeps the input-file flag in front of the flags read
\* from the file
input_redirection_keeps_flag(parsed, g) ==
    IF flag_exists(parsed, "-i", "--input")
    THEN IF size(parsed) # 1
         THEN [abort |-> <<new_err("<ENGINE> Input file flag should be the only one!")>>,
               inst |-> parsed, io |-> <<>>]
         ELSE LET flag_ptr == get_flag_ptr(parsed, 0) IN
              IF is_empty(parsed[flag_ptr])
              THEN [abort |-> <<new_err("<ENGINE> Input file flag requires an argument!")>>,
                    inst |-> parsed, io |-> <<>>]
              ELSE IF ~File_exists(parsed[flag_ptr].arg)
              THEN [abort |->
                      <<new_err("<ENGINE> Input file flag has invalid file as an argument!")>>,
                    inst |-> parsed, io |-> << <<"exists", parsed[flag_ptr].arg>> >>]
              ELSE [abort |-> <<>>,
                    inst |-> parsed \o from_vec_string(
                                 get_words(read_unchecked(parsed[flag_ptr].arg)), g),
                    io |-> << <<"exists", parsed[flag_ptr].arg>>,
                              <<"read", parsed[flag_ptr].arg>> >>]
    ELSE [abort |-> <<>>, inst |-> parsed, io |-> <<>>]

\* Engine::execute, lines 122-156: the input-file flag.  abort holds the error
\* Outputs pushed before the early return (none when the run goes on)
input_redirection(parsed, g) ==
    IF flag_exists(parsed, "-i", "--input")
    THEN IF size(parsed) # 1
         THEN [abort |-> <<new_err("<ENGINE> Input file flag should be the only one!")>>,
               inst |-> parsed, io |-> <<>>]
         ELSE LET flag_ptr == get_flag_ptr(parsed, 0) IN
              IF is_empty(parsed[flag_ptr])
              THEN [abort |-> <<new_err("<ENGINE> Input file flag requires an argument!")>>,
                    inst |-> parsed, io |-> <<>>]
              ELSE IF ~File_exists(parsed[flag_ptr].arg)
              THEN [abort |->
                      <<new_err("<ENGINE> Input file flag has invalid file as an argument!")>>,
                    inst |-> parsed, io |-> << <<"exists", parsed[flag_ptr].arg>> >>]
              ELSE [abort |-> <<>>,
                    inst |-> from_vec_string(
                                 get_words(read_unchecked(parsed[flag_ptr].arg)), g),
                    io |-> << <<"exists", parsed[flag_ptr].arg>>,
                              <<"read", parsed[flag_ptr].arg>> >>]
    ELSE [abort |-> <<>>, inst |-> parsed, io |-> <<>>]

\* a resolve that looks among the aliases first, then among the callers
resolve_alias_first(name) ==
    IF is_none(get_by_alias(commands, name)) THEN get_by_caller(commands, name)
    ELSE get_by_alias(commands, name)

\* Engine::execute, lines 159-163: the command of a flag, by caller, else by
\* alias
resolve(name) ==
    IF is_none(get_by_caller(commands, name)) THEN get_by_alias(commands, name)
    ELSE get_by_caller(commands, name)

\* the call command->validate(flag, inst, operations) of line 168, in the run
\* state s, that gave v; pushed is what lines 169-172 then append to the Outputs
validation(s, flag, command, v, pushed) ==
    [command |-> command, flag |-> flag, inst |-> s.inst, operations |-> s.operations,
     gave |-> v, pushed |-> pushed]

\* an on_validate that also pushes a success Output that bears a message
on_validate_reports_ok(k, s, flag, command, v) ==
    IF is_err(v.output)
    THEN [s EXCEPT !.outputs = Append(@, v.output),
                   !.inst = v.inst,
                   !.operations = [v.operations EXCEPT !.is_panicked = TRUE],
                   !.resolved = Append(@, k),
                   !.validated = Append(@, k),
                   !.failed = k,
                   !.io = @ \o v.io,
                   !.validations = Append(@, validation(s, flag, command, v, <<v.output>>))]
    ELSE [s EXCEPT !.outputs = IF v.output.msg # "" THEN Append(@, v.output) ELSE @,
                   !.inst = v.inst,
                   !.operations = v.operations,
                   !.validated_commands = map_put(@, command, flag),
                   !.resolved = Append(@, k),
                   !.validated = Append(@, k),
                   !.io = @ \o v.io,
                   !.validations =
                       Append(@, validation(s, flag, command, v,
                                            IF v.output.msg # "" THEN <<v.output>> ELSE <<>>))]

\* Engine::execute, lines 166-178: the flag k resolved to command, and its
\* validate gave v
on_validate(k, s, flag, command, v) ==
    IF is_err(v.output)
    THEN [s EXCEPT !.outputs = Append(@, v.output),
                   !.inst = v.inst,
                   !.operations = [v.operations EXCEPT !.is_panicked = TRUE],
                   !.resolved = Append(@, k),
                   !.validated = Append(@, k),
                   !.failed = k,
                   !.io = @ \o v.io,
                   !.validations = Append(@, validation(s, flag, command, v, <<v.output>>))]
    ELSE [s EXCEPT !.inst = v.inst,
                   !.operations = v.operations,
                   !.validated_commands = map_put(@, command, flag),
                   !.resolved = Append(@, k),
                   !.validated = Append(@, k),
                   !.io = @ \o v.io,
                   !.validations = Append(@, validation(s, flag, command, v, <<>>))]

\* Engine::execute, lines 165-188: the flag k looked up, with the result
\* command_o
on_resolve(k, s, flag, command_o) ==
    IF is_some(command_o)
    THEN on_validate(k, s, flag, get_value(command_o),
                     validate(get_value(command_o), flag, s.inst, s.operations))
    ELSE [s EXCEPT !.outputs =
                       Append(@, new_err("<ENGINE> Invalid flag: [" \o flag.name \o "]")),
                   !.operations = [@ EXCEPT !.is_panicked = TRUE],
                   !.resolved = Append(@, k),
                   !.failed = k]

\* a body of the validation loop that takes the k-th flag as it was parsed, not
\* as earlier validations left it
validation_body_stale(k, s) ==
    on_resolve(k, s, [s.inst[k] EXCEPT !.mod = 0], resolve(s.inst[k].name))

\* Engine::execute, lines 159-188: the body of the validation loop at the k-th
\* flag of s.inst; failed # 0 in the result is a break
validation_body(k, s) == on_resolve(k, s, s.inst[k], resolve(s.inst[k].name))

\* validation_loop without its two breaks: a flag that fails is reported and
\* the loop goes on to the next flag (failed keeps the first flag that failed)
RECURSIVE validation_loop_no_break(_, _)
validation_loop_no_break(k, s) ==
    IF k > Len(s.inst) THEN s
    ELSE validation_loop_no_break(k + 1,
             [validation_body(k, s) EXCEPT !.failed = IF s.failed # 0 THEN s.failed ELSE @])

\* Engine::execute, lines 158-189: the validation loop, from the k-th flag of
\* s.inst on
RECURSIVE validation_loop(_, _)
validation_loop(k, s) ==
    IF k > Len(s.inst) THEN s
    ELSE LET turn == validation_body(k, s)
         IN  IF turn.failed # 0 THEN turn ELSE validation_loop(k + 1, turn)

\* Engine::execute, lines 191-197: the check of the source
source_check(s) ==
    IF s.operations.file_in = "" /\ s.operations.source = ""
    THEN [s EXCEPT !.outputs = Append(@, new_err("<ENGINE> Source file is invalid!")),
                   !.operations = [@ EXCEPT !.is_panicked = TRUE]]
    ELSE s

\* execution_loop that ends at the first execute that returns an error Output,
\* which it pushes, marking the run state panicked
RECURSIVE execution_loop_fatal(_, _)
execution_loop_fatal(pairs, s) ==
    IF pairs = <<>> THEN s
    ELSE LET pair   == Head(pairs)
             output == execute(pair.command, pair.flag, s.operations)
         IN  IF is_err(output)
             THEN [s EXCEPT !.outputs = IF output.msg # "" THEN Append(@, output) ELSE @,
                            !.operations = [@ EXCEPT !.is_panicked = TRUE],
                            !.executed = Append(@, pair)]
             ELSE execution_loop_fatal(Tail(pairs),
                      [s EXCEPT !.outputs = IF output.msg # "" THEN Append(@, output) ELSE @,
                                !.executed = Append(@, pair)])

\* Engine::execute, lines 203-209: the execution loop over the entries of
\* validated_commands still to visit.  executed lists the calls of execute made
RECURSIVE execution_loop(_, _)
execution_loop(pairs, s) ==
    IF pairs = <<>> THEN s
    ELSE LET pair   == Head(pairs)
             output == execute(pair.command, pair.flag, s.operations)
         IN  execution_loop(Tail(pairs),
                 [s EXCEPT !.outputs = IF output.msg # "" THEN Append(@, output) ELSE @,
                           !.executed = Append(@, pair)])

\* Engine::execute, lines 119-120: the locals of a call that got past the
\* input-file flag (redir), the Engine as the call finds it.  resolved and
\* validated list the flags (by index) that were looked up in the registry and
\* that were handed to a validate; failed is the flag at which the validation
\* loop broke (0: it did not); executed lists the calls of execute made;
\* validations lists the calls of validate made, with what they were given
\* and what they gave
run_state(redir) ==
    [inst |-> redir.inst, operations |-> operations,
     outputs |-> outputs \o redir.abort,
     validated_commands |-> <<>>, resolved |-> <<>>, validated |-> <<>>,
     failed |-> 0, executed |-> <<>>, io |-> redir.io, validations |-> <<>>]

\* Engine::execute, lines 158-197: the validation loop, then the check of the
\* source
validation_pass(s) == source_check(validation_loop(1, s))

\* Engine::execute, lines 199-209: the return of a panicked run, else the
\* execution loop
execution_pass(s) ==
    IF s.operations.is_panicked THEN s
    ELSE execution_loop(map_iter(s.validated_commands), s)

\* the end of a call whose run state is s at its return and whose grab_output
\* gave out: the String returned (ret), the Engine and the files the call
\* leaves, and what the call did (seen)
returned(raw_args, parsed, aborted, s, out) ==
    [ret |-> out.ret, outputs |-> out.outputs, operations |-> out.operations,
     files |-> out.files,
     seen |-> [raw_args  |-> raw_args,
               start     |-> [outputs |-> outputs, operations |-> operations],
               parsed    |-> parsed,
               aborted   |-> aborted,
               inst      |-> s.inst,
               resolved  |-> s.resolved,
               validated |-> s.validated,
               failed    |-> s.failed,
               executed  |-> s.executed,
               validations |-> s.validations,
               at_render |-> [outputs |-> s.outputs, operations |-> s.operations],
               report    |-> output_stream(s.outputs),
               ret       |-> out.ret,
               io        |-> s.io \o out.io]]

\* Engine::execute from line 158 on, the input-file flag done (redir): every
\* return of the function is a return of grab_output
after_input_redirection(raw_args, parsed, redir, s) ==
    returned(raw_args, parsed, redir.abort # <<>>, s,
             grab_output(s.outputs, s.operations))

\* Engine::execute from line 122 on, raw_args parsed
after_parse(raw_args, parsed, redir) ==
    after_input_redirection(raw_args, parsed, redir,
        IF redir.abort # <<>> THEN run_state(redir)
        ELSE execution_pass(validation_pass(run_state(redir))))

\* Engine::execute(raw_args) on the Engine of the current state.  g is the value
\* an uninitialised Flag::pos happens to hold
Engine_execute(raw_args, g) ==
    after_parse(raw_args, from_vec_string(raw_args, g),
                input_redirection(from_vec_string(raw_args, g), g))

(***************************************************************************)
(* The state machine: one Engine built by create_engine, the calls of      *)
(* Engine::execute made on it, and the files.                              *)
(***************************************************************************)
\* the tokens of the command lines of the single-call specification
Tokens == {"-f", "a", "-o", "-i", "-w", "--words", "-c", "-z"}

\* every raw_args of at most MaxTokens tokens
RunArgs == UNION {[1..n -> Tokens] : n \in 0..MaxTokens}

\* the flags, with their arguments, of the command lines of the multi-call
\* specification
Groups == {<<"-f", "a">>, <<"-o", "b">>, <<"-w">>, <<"-z">>, <<"-i", "a">>}

RECURSIVE Lines(_)
Lines(n) ==
    IF n = 0 THEN {<<>>}
    ELSE Lines(n - 1) \cup {l \o grp : l \in Lines(n - 1), grp \in Groups}

\* every raw_args made of at most MaxFlags groups
SeqArgs == Lines(MaxFlags)

\* the values an uninitialised Flag::pos may hold
UninitPos == {0, 1}

\* the file a holds a text that is also a command line
InitFiles == [n \in {"a"} |-> "-f a -w"]

Init ==
    /\ commands = create_engine
    /\ outputs = <<>>
    /\ operations = Operations
    /\ files = InitFiles
    /\ build \in [mapOrder : {"insertion", "reverse"}]
    /\ run = none
    /\ calls = 0
    /\ added = <<>>

\* the call e of Engine::execute made: the Engine and the files are as it
\* leaves them, and the caller holds its result
Called(e, again) ==
    /\ outputs' = e.outputs
    /\ operations' = e.operations
    /\ files' = e.files
    /\ run' = some(e.seen @@ [again |-> again # <<>>, before |-> again])
    /\ calls' = calls + 1
    /\ UNCHANGED <<commands, build, added>>

\* String Engine::execute(const Vec<String>& raw_args), the whole call
Call(raw_args, g, again) ==
    calls < MaxCalls /\ Called(Engine_execute(raw_args, g), again)

\* a call of execute by a caller that holds no earlier result
Execute(raw_args, g) == is_none(run) /\ Call(raw_args, g, <<>>)

\* the caller executes the same raw_args a second time, right after the first
ExecuteAgain(g) ==
    /\ is_some(run)
    /\ ~get_value(run).again
    /\ Call(get_value(run).raw_args, g, <<get_value(run).report>>)

\* the caller takes the returned String (main prints it)
Return ==
    /\ is_some(run)
    /\ run' = none
    /\ UNCHANGED <<commands, outputs, operations, files, build, calls, added>>

\* any call of execute on the Engine, by a caller that holds no earlier result
ExecuteAny ==
    /\ is_none(run)
    /\ calls < MaxCalls
    /\ \E raw_args \in SeqArgs, g \in UninitPos : Execute(raw_args, g)

Next ==
    \/ ExecuteAny
    \/ \E g \in UninitPos : ExecuteAgain(g)
    \/ Return

Spec == Init /\ [][Next]_vars

\* main: one Engine, one call of execute, on any raw_args
RunOnce ==
    /\ calls = 0
    /\ \E raw_args \in RunArgs, g \in UninitPos : Execute(raw_args, g)

NextRun == RunOnce

SpecRun == Init /\ [][NextRun]_vars

(***************************************************************************)
(* main on command lines that hold empty tokens and arguments of several   *)
(* tokens: what Instruction::from_vec_string makes of them.                *)
(***************************************************************************)
ParseTokens == {"", "-f", "-w", "a", "b"}

ParseArgs == UNION {[1..n -> ParseTokens] : n \in 0..MaxTokens}

RunParse ==
    /\ calls = 0
    /\ \E raw_args \in ParseArgs, g \in UninitPos : Execute(raw_args, g)

NextParse == RunParse

SpecParse == Init /\ [][NextParse]_vars

(***************************************************************************)
(* main on command lines of the sort flags and the -l flag, on a source    *)
(* file with words of different and of equal lengths.                      *)
(***************************************************************************)
SortTokens == {"-f", "a", "-s", "-rs", "-l", "--by-length", "-w"}

SortArgs == UNION {[1..n -> SortTokens] : n \in 0..MaxTokens}

InitSort ==
    /\ commands = create_engine
    /\ outputs = <<>>
    /\ operations = Operations
    /\ files = [n \in {"a"} |-> "b aa c"]
    /\ build \in [mapOrder : {"insertion", "reverse"}, sortTies : {"kept", "reversed"}]
    /\ run = none
    /\ calls = 0
    /\ added = <<>>

RunSort ==
    /\ calls = 0
    /\ \E raw_args \in SortArgs, g \in UninitPos : Execute(raw_args, g)

NextSort == RunSort

SpecSort == InitSort /\ [][NextSort]_vars

(***************************************************************************)
(* main on command lines of the flags -a and -p.                           *)
(***************************************************************************)
LastTokens == {"-f", "a", "-a", "-p", "-w"}

LastArgs == UNION {[1..n -> LastTokens] : n \in 0..MaxTokens}

RunLast ==
    /\ calls = 0
    /\ \E raw_args \in LastArgs, g \in UninitPos : Execute(raw_args, g)

NextLast == RunLast

SpecLast == Init /\ [][NextLast]_vars

(***************************************************************************)
(* main on command lines of the input-file flag, the file a holding any of *)
(* several command lines.                                                  *)
(***************************************************************************)
RedirectTokens == {"-i", "--input", "a", "b", "-w"}

RedirectArgs == UNION {[1..n -> RedirectTokens] : n \in 0..MaxTokens}

\* the texts of the file a
RedirectTexts ==
    {"-f a -w", "-w\n-f a", "", "-z -f a", "a -w", "-i b", "-f a -o c", "-i b -f a -w"}

InitRedirect ==
    /\ commands = create_engine
    /\ outputs = <<>>
    /\ operations = Operations
    /\ files \in {[n \in {"a", "b"} |-> IF n = "a" THEN text ELSE "-f b -w"] :
                     text \in RedirectTexts}
    /\ build \in [mapOrder : {"insertion", "reverse"}]
    /\ run = none
    /\ calls = 0
    /\ added = <<>>

RunRedirect ==
    /\ calls = 0
    /\ \E raw_args \in RedirectArgs, g \in UninitPos : Execute(raw_args, g)

NextRedirect == RunRedirect

SpecRedirect == InitRedirect /\ [][NextRedirect]_vars

(***************************************************************************)
(* A client of the Engine: Engine(), some calls of Engine::add with its    *)
(* commands, then one call of Engine::execute.                             *)
(***************************************************************************)
\* the commands the client hands to Engine::add
AddCommands == {"CountWords", "SourceFile", "Failing", "FailingMute", "FileInput", "OtherFile"}

\* the flags of the client's command lines, after the source file
ClientGroups == {<<"-w">>, <<"-x">>, <<"-y">>}

RECURSIVE LinesOf(_, _)
LinesOf(groups, n) ==
    IF n = 0 THEN {<<>>}
    ELSE LinesOf(groups, n - 1) \cup {l \o grp : l \in LinesOf(groups, n - 1), grp \in groups}

\* the source file a, then at most MaxFlags of the client's flags
ClientArgs == {<<"-f", "a">> \o l : l \in LinesOf(ClientGroups, MaxFlags)}

\* Engine::Engine(): the base commands only
InitClient ==
    /\ commands = add_base_commands(CommandsHolder)
    /\ outputs = <<>>
    /\ operations = Operations
    /\ files = InitFiles
    /\ build \in [mapOrder : {"insertion", "reverse"}]
    /\ run = none
    /\ calls = 0
    /\ added = <<>>

\* Engine* Engine::add(C command_generic)
Add(command_generic) ==
    /\ calls = 0
    /\ Len(added) < MaxAdds
    /\ commands' = Engine_add(commands, command_generic)
    /\ added' = Append(added, command_generic)
    /\ UNCHANGED <<outputs, operations, files, build, run, calls>>

\* the client's call of execute
ExecuteClient ==
    /\ calls = 0
    /\ \E raw_args \in ClientArgs, g \in UninitPos : Execute(raw_args, g)

NextClient ==
    \/ \E command_generic \in AddCommands : Add(command_generic)
    \/ ExecuteClient

SpecClient == InitClient /\ [][NextClient]_vars

(***************************************************************************)
(* A client that registers commands whose names meet those of others, and  *)
(* a command whose validate succeeds with a message; its command lines     *)
(* name the source file by the caller or by the alias.                     *)
(***************************************************************************)
ResolveCommands == {"CountWords", "Crossed", "WordsToo", "OtherFile", "Talking"}

ResolveGroups == {<<"-w">>, <<"--words">>, <<"-t">>}

ResolveArgs ==
    {start \o l : start \in {<<"-f", "a">>, <<"--file", "a">>},
                  l \in LinesOf(ResolveGroups, MaxFlags)}

ExecuteResolve ==
    /\ calls = 0
    /\ \E raw_args \in ResolveArgs, g \in UninitPos : Execute(raw_args, g)

NextResolve ==
    \/ \E command_generic \in ResolveCommands : Add(command_generic)
    \/ ExecuteResolve

SpecResolve == InitClient /\ [][NextResolve]_vars

(***************************************************************************)
(* A client whose commands give Outputs of either tag, with and without a  *)
(* message; its command lines name the source file or do not.              *)
(***************************************************************************)
RenderCommands == {"CountWords", "Failing", "Refusing"}

RenderGroups == {<<"-w">>, <<"-x">>, <<"-r">>}

RenderArgs ==
    {start \o l : start \in {<<"-f", "a">>, <<>>}, l \in LinesOf(RenderGroups, MaxFlags)}

ExecuteRender ==
    /\ calls = 0
    /\ \E raw_args \in RenderArgs, g \in UninitPos : Execute(raw_args, g)

NextRender ==
    \/ \E command_generic \in RenderCommands : Add(command_generic)
    \/ ExecuteRender

SpecRender == InitClient /\ [][NextRender]_vars

(***************************************************************************)
(* What the last call of Engine::execute did.                              *)
(***************************************************************************)
Seen == get_value(run)

\* the Outputs the call pushed, in order
Appended(r) ==
    SubSeq(r.at_render.outputs, Len(r.start.outputs) + 1, Len(r.at_render.outputs))

\* the call reached its rendering by an abort: an early return of the input-file
\* flag, or a panicked run state
Aborts(r) == r.aborted \/ r.at_render.operations.is_panicked

\* the lines of a text, each without its '\n'
RECURSIVE get_lines(_)
get_lines(text) ==
    LET ends == {k \in 1..Len(text) : SubSeq(text, k, k) = "\n"}
    IN  IF ends = {} THEN (IF text = "" THEN <<>> ELSE <<text>>)
        ELSE <<SubSeq(text, 1, Min(ends) - 1)>>
                 \o get_lines(SubSeq(text, Min(ends) + 1, Len(text)))

\* the error Output of the check of the source
SourceInvalid == new_err("<ENGINE> Source file is invalid!")

InSeq(x, seq) == \E k \in 1..Len(seq) : seq[k] = x

\* the flags 1..n, in order
UpTo(n) == [k \in 1..n |-> k]

\* every flag of the Instruction bears a name (it was made from a flag token)
Named(inst) == \A k \in 1..Len(inst) : exists(inst[k])

(***************************************************************************)
(* C1: validation is fail-fast.  In every run of Engine::execute in which  *)
(* a flag fails (it resolves to no command, or its validate returns an     *)
(* error), the flags looked up are exactly those up to the failing one,    *)
(* no flag after it is validated, the run state is panicked at rendering   *)
(* and no execute is invoked.                                              *)
(***************************************************************************)
C1_FailFast ==
    is_some(run) /\ Seen.failed # 0 =>
        /\ Seen.resolved = UpTo(Seen.failed)
        /\ \A k \in 1..Len(Seen.validated) : Seen.validated[k] <= Seen.failed
        /\ Seen.at_render.operations.is_panicked
        /\ Seen.executed = <<>>

\* a run whose second flag of three fails, after a flag that validated
C1_Witness ==
    /\ is_some(run)
    /\ Seen.failed = 2
    /\ Len(Seen.inst) = 3
    /\ Seen.validated = <<1>>
    /\ Seen.resolved = <<1, 2>>

(***************************************************************************)
(* C2: every run of Engine::execute that aborts renders exactly one line,  *)
(* an [ERROR] line; when the abort is an unrecognized flag, that line      *)
(* names the flag, wherever the flag stands.  Stated for the runs of a new *)
(* Engine (the report holds the lines of this run only) whose Instruction  *)
(* holds only flags that bear a name.                                      *)
(***************************************************************************)
C2_AbortOneLine ==
    is_some(run) /\ Named(Seen.inst) /\ Aborts(Seen) =>
        /\ count_chars(Seen.report, 1, {"\n"}) = 1
        /\ SubSeq(Seen.report, 1, 9) = "[ERROR]: "
        /\ Seen.failed # 0 /\ ~InSeq(Seen.failed, Seen.validated) =>
               Seen.report = "[ERROR]: <ENGINE> Invalid flag: ["
                             \o Seen.inst[Seen.failed].name \o "]\n"

(***************************************************************************)
(* C3: the error Output "Source file is invalid" is pushed exactly when    *)
(* the validation pass ended with no failing flag and the run state has    *)
(* neither a source nor an input-file path; never in a run whose           *)
(* validation pass panicked.  Stated for the Instructions that hold only   *)
(* flags that bear a name.                                                 *)
(***************************************************************************)
C3_SourceCheckAfterCleanValidation ==
    is_some(run) /\ Named(Seen.inst) =>
        (InSeq(SourceInvalid, Appended(Seen)) <=>
            /\ ~Seen.aborted
            /\ Seen.failed = 0
            /\ Seen.at_render.operations.file_in = ""
            /\ Seen.at_render.operations.source = "")

(***************************************************************************)
(* C4: in every run of any sequence of runs on one Engine, an execute is   *)
(* invoked only if in that run every flag resolved and validated without   *)
(* error and the validation pass of that run populated the source (a       *)
(* source-file flag validated in it).                                      *)
(***************************************************************************)
C4_ExecuteOnlyAfterOwnValidation ==
    is_some(run) /\ Seen.executed # <<>> =>
        /\ Seen.failed = 0
        /\ Seen.validated = UpTo(Len(Seen.inst))
        /\ \E k \in 1..Len(Seen.validated) :
               Seen.inst[Seen.validated[k]].name \in {"-f", "--file"}

(***************************************************************************)
(* C5: in a run that does not abort, execute is invoked exactly once for   *)
(* every flag of the Instruction, also when several flags resolve to the   *)
(* same command: as many invocations as flags.                             *)
(***************************************************************************)
C5_ExecuteOncePerFlag ==
    is_some(run) /\ ~Aborts(Seen) =>
        /\ Len(Seen.executed) = Len(Seen.inst)
        /\ \A k \in 1..Len(Seen.inst) :
               Cardinality({j \in 1..Len(Seen.executed) :
                                Seen.executed[j].flag = Seen.inst[k]}) = 1

(***************************************************************************)
(* C6: the execution pass invokes the commands in the left-to-right order  *)
(* of their flags in the Instruction.                                      *)
(***************************************************************************)
C6_ExecuteInFlagOrder ==
    is_some(run) =>
        \A i, j \in 1..Len(Seen.executed) :
            i < j => Seen.executed[i].flag.pos < Seen.executed[j].flag.pos

(***************************************************************************)
(* C7: every call of Engine::execute starts with an empty Outputs list and *)
(* a default run state, whatever the calls before it did.                  *)
(***************************************************************************)
C7_FreshStart == is_some(run) => Seen.start = clear

(***************************************************************************)
(* C8: executing the same raw_args twice in a row on one Engine gives the  *)
(* same report both times (no file that the runs read changes between      *)
(* them: they read a and write b).                                         *)
(***************************************************************************)
C8_SameReportTwice ==
    is_some(run) /\ Seen.again => Seen.report = Seen.before[1]

(***************************************************************************)
(* C9: report routing.  In every call of Engine::execute, if the run state *)
(* holds a non-empty output-file path at rendering, the rendered report    *)
(* becomes the whole content of that file, no other file changes, and the  *)
(* call returns the empty string; otherwise the call returns the rendered  *)
(* report, changes no file, and leaves an empty Outputs list and a default *)
(* run state.                                                              *)
(***************************************************************************)
C9_ReportRouting ==
    [][calls' = calls + 1 =>
        LET r  == get_value(run')
            fo == r.at_render.operations.file_out
        IN  IF fo # ""
            THEN /\ r.ret = ""
                 /\ DOMAIN files' = (DOMAIN files) \cup {fo}
                 /\ files'[fo] = output_stream(r.at_render.outputs)
                 /\ \A n \in (DOMAIN files) \ {fo} : files'[n] = files[n]
            ELSE /\ r.ret = output_stream(r.at_render.outputs)
                 /\ files' = files
                 /\ outputs' = <<>>
                 /\ operations' = Operations]_vars

\* a run that wrote a report of two lines to the output file b
C9_Witness ==
    /\ is_some(run)
    /\ Seen.at_render.operations.file_out = "b"
    /\ Len(Seen.at_render.outputs) = 2
    /\ "b" \in DOMAIN files
    /\ files["b"] = Seen.report
    /\ Seen.report # ""
    /\ Seen.ret = ""

(***************************************************************************)
(* C10: input-file exclusivity.  When the Instruction parsed from raw_args *)
(* holds a flag -i or --input and any other flag, the run pushes the one   *)
(* error "<ENGINE> Input file flag should be the only one!", looks up,     *)
(* validates and executes no flag, and neither tests nor reads a file.     *)
(***************************************************************************)
C10_InputFileExclusive ==
    is_some(run) /\ flag_exists(Seen.parsed, "-i", "--input") /\ size(Seen.parsed) # 1 =>
        /\ Appended(Seen) = <<new_err("<ENGINE> Input file flag should be the only one!")>>
        /\ Seen.resolved = <<>>
        /\ Seen.validated = <<>>
        /\ Seen.executed = <<>>
        /\ \A k \in 1..Len(Seen.io) : Seen.io[k][1] \notin {"exists", "read"}

\* the input-file flag names the existing file a and comes after another flag
C10_Witness ==
    /\ is_some(run)
    /\ size(Seen.parsed) = 2
    /\ Seen.parsed[2].name = "-i"
    /\ File_exists(Seen.parsed[2].arg)
    /\ Seen.ret = "[ERROR]: <ENGINE> Input file flag should be the only one!\n"

(***************************************************************************)
(* C11: execution errors are not fatal.  In every run in which an execute  *)
(* returns an error Output, every command of a validated flag is executed  *)
(* all the same, the run state is not panicked at rendering, and the       *)
(* Outputs the run pushed are the Outputs of the executes that bear a      *)
(* message, the error ones included, in the order of execution.            *)
(***************************************************************************)
C11_ExecuteErrorNotFatal ==
    is_some(run) =>
        LET ran(j)     == execute(Seen.executed[j].command, Seen.executed[j].flag,
                                  Seen.at_render.operations)
            rans       == [j \in 1..Len(Seen.executed) |-> ran(j)]
            Speaks(o)  == o.msg # ""
        IN  (\E j \in 1..Len(Seen.executed) : is_err(ran(j))) =>
                /\ {Seen.executed[j].command : j \in 1..Len(Seen.executed)}
                       = {get_value(resolve(Seen.inst[k].name)) : k \in 1..Len(Seen.inst)}
                /\ ~Seen.at_render.operations.is_panicked
                /\ Appended(Seen) = SelectSeq(rans, Speaks)

\* the failing -x is executed before -w, and both lines are in the report
C11_Witness ==
    /\ is_some(run)
    /\ Len(Seen.executed) = 3
    /\ Seen.ret = "[ERROR]: <-x> Failed\n[SUCCESS]: <-w> Words: 3\n"

(***************************************************************************)
(* The tokens of a command line, as the specification of the tokenizer     *)
(* classifies them.                                                        *)
(***************************************************************************)
\* a flag token: a non-empty token that starts with '-'
IsFlagToken(t) == t # "" /\ SubSeq(t, 1, 1) = "-"

IsNonEmptyToken(t) == t # ""

IsArgumentToken(t) == t # "" /\ ~IsFlagToken(t)

\* the index in vec_s of its k-th flag token; Len(vec_s) + 1 when there are fewer
FlagTokenAt(vec_s, k) ==
    LET at == {i \in 1..Len(vec_s) :
                  /\ IsFlagToken(vec_s[i])
                  /\ Cardinality({j \in 1..i : IsFlagToken(vec_s[j])}) = k}
    IN  IF at = {} THEN Len(vec_s) + 1 ELSE Min(at)

\* the argument tokens between the k-th flag token and the next one
ArgumentTokens(vec_s, k) ==
    SelectSeq(SubSeq(vec_s, FlagTokenAt(vec_s, k) + 1, FlagTokenAt(vec_s, k + 1) - 1),
              IsArgumentToken)

\* the strings of seq joined by single spaces
RECURSIVE Joined(_)
Joined(seq) ==
    IF seq = <<>> THEN ""
    ELSE IF Len(seq) = 1 THEN seq[1]
    ELSE seq[1] \o " " \o Joined(Tail(seq))

(***************************************************************************)
(* C12: for every token sequence, the k-th flag (k = 0, 1, ...) of the     *)
(* Instruction that from_vec_string builds has position k.                 *)
(***************************************************************************)
C12_PositionsCountFlags ==
    is_some(run) => \A k \in 1..Len(Seen.parsed) : Seen.parsed[k].pos = k - 1

(***************************************************************************)
(* C13: for every token sequence, the Instruction that from_vec_string     *)
(* builds holds exactly one Flag per flag token, in order, named by that   *)
(* token, and no other Flag (none at all when there is no flag token).     *)
(***************************************************************************)
C13_OneFlagPerFlagToken ==
    is_some(run) =>
        [k \in 1..Len(Seen.parsed) |-> Seen.parsed[k].name]
            = SelectSeq(Seen.raw_args, IsFlagToken)

(***************************************************************************)
(* C14: empty tokens are skipped: for every token sequence,                *)
(* from_vec_string builds the Instruction that it builds for the sequence  *)
(* without its empty tokens.                                               *)
(***************************************************************************)
C14_EmptyTokensSkipped ==
    is_some(run) =>
        \A g \in UninitPos :
            from_vec_string(Seen.raw_args, g)
                = from_vec_string(SelectSeq(Seen.raw_args, IsNonEmptyToken), g)

(***************************************************************************)
(* C15: for every token sequence, the argument of every flag that          *)
(* from_vec_string builds is the argument tokens (non-empty, not flag      *)
(* tokens) between its flag token and the next flag token, joined by       *)
(* single spaces, with no trailing space; it is empty when there is none.  *)
(* A Flag without a name was made from no flag token and has no argument   *)
(* token.                                                                  *)
(***************************************************************************)
C15_ArgumentJoined ==
    is_some(run) =>
        \A k \in 1..Len(Seen.parsed) :
            Seen.parsed[k].arg =
                IF exists(Seen.parsed[k])
                THEN Joined(ArgumentTokens(Seen.raw_args, k))
                ELSE ""

\* a flag with an argument of two tokens and an empty token between them
C15_Witness ==
    /\ is_some(run)
    /\ Seen.raw_args = <<"-f", "a", "", "b">>
    /\ Len(Seen.parsed) = 1
    /\ Seen.parsed[1].arg = "a b"

(***************************************************************************)
(* The registry, as the claims about it speak of it.                       *)
(***************************************************************************)
\* the (caller, alias) pairs of the entries of the registry h
Pairs(h) == {<<h.callers[k], h.aliases[k]>> : k \in DOMAIN h.commands}

\* the call of Engine::add that this step makes hands over command_generic
Adds(command_generic) == added' = Append(added, command_generic)

(***************************************************************************)
(* C16: duplicate registration is ignored.  After any sequence of          *)
(* Engine::add calls no two entries of the registry have the same          *)
(* (caller, alias) pair and the base commands -f/--file, -i/--input and    *)
(* -o/--output are registered; a call of Engine::add with a command whose  *)
(* pair is registered leaves the registry, entries and next id, unchanged. *)
(***************************************************************************)
C16_DuplicateAddIgnored ==
    /\ [](/\ \A j, k \in DOMAIN commands.commands :
                 commands.callers[j] = commands.callers[k]
                 /\ commands.aliases[j] = commands.aliases[k] => j = k
          /\ {<<"-f", "--file">>, <<"-i", "--input">>, <<"-o", "--output">>}
                 \subseteq Pairs(commands))
    /\ [][\A c \in AddCommands :
              Adds(c) /\ <<caller(c), alias(c)>> \in Pairs(commands)
                  => commands' = commands]_vars

\* CountWords was handed to Engine::add twice and is registered once
C16_Witness ==
    /\ added = <<"CountWords", "CountWords">>
    /\ commands.id = 4
    /\ Cardinality(DOMAIN commands.commands) = 4

Orders(seq) ==
    {[i \in 1..Len(seq) |-> seq[p[i]]] :
        p \in {q \in [1..Len(seq) -> 1..Len(seq)] :
                  \A i, j \in 1..Len(seq) : q[i] = q[j] => i = j}}

AscendingByLength(w) == \A i, j \in 1..Len(w) : i < j => Len(w[i]) <= Len(w[j])

AscendingByText(w) == \A i, j \in 1..Len(w) : i < j => ~string_less(w[j], w[i])

\* the report of the run r is the one line of the sort flag name, a success,
\* with the words w
ReportsWords(r, name, w) ==
    r.ret = "[SUCCESS]: " \o flag_string_stream_structure([name |-> name], w) \o "\n"

\* the run r succeeded and reports, for the sort flag name, the words of its
\* source ascending by length and not by text
SortedByLength(r, name) ==
    /\ ~r.at_render.operations.is_panicked
    /\ \E w \in Orders(get_words(r.at_render.operations.source)) :
           /\ AscendingByLength(w)
           /\ ~AscendingByText(w)
           /\ ReportsWords(r, name, w)

(***************************************************************************)
(* C18, as claimed: the run -f a -s -l (the sort flag, then -l) succeeds   *)
(* and reports the words of the source ascending by length, not by text.   *)
(***************************************************************************)
C18_LengthFlagAfterSort ==
    is_some(run) /\ Seen.raw_args = <<"-f", "a", "-s", "-l">> => SortedByLength(Seen, "-s")

(***************************************************************************)
(* C18, corrected: -l switches the sort flag that comes right after it.    *)
(* The run -f a -l -s (-l, then the sort flag) succeeds and reports the    *)
(* words of the source ascending by length, not by text; the run           *)
(* -f a -s -l fails with the error of a -l that is the last flag.          *)
(***************************************************************************)
C18_LengthFlagBeforeSort ==
    is_some(run) =>
        /\ Seen.raw_args = <<"-f", "a", "-l", "-s">> => SortedByLength(Seen, "-s")
        /\ Seen.raw_args = <<"-f", "a", "-s", "-l">> =>
               Seen.ret = "[ERROR]: <-l> This flag can't be the last one!\n"

\* the words b, aa, c of the source come out as b, c, aa
C18_Witness ==
    /\ is_some(run)
    /\ Seen.raw_args = <<"-f", "a", "-l", "-s">>
    /\ Seen.ret = "[SUCCESS]: <-s> {\n    \"b\",\n    \"c\",\n    \"aa\",\n}\n"

(***************************************************************************)
(* The calls of validate of a run.                                         *)
(***************************************************************************)
\* the flags of the Instruction that the call x of validate was given which
\* stand at the position after that of its flag
FlagsAfter(x) == {k \in 1..Len(x.inst) : x.inst[k].pos = x.flag.pos + 1}

\* the call x of validate returned the error message of its flag
GaveError(x, message) == x.gave.output = new_err("<" \o x.flag.name \o "> " \o message)

\* the call x of validate succeeded
GaveOk(x) == x.gave.output = new_ok("")

(***************************************************************************)
(* C19: validation of -l/--by-length.  With no flag at position + 1 it     *)
(* returns the error "This flag can't be the last one!"; with -l or        *)
(* --by-length next it succeeds and changes no modifier; with -s,          *)
(* --sorted, -rs or --reverse-sorted next it succeeds and sets the         *)
(* modifier of that flag to 1; with any other flag next it returns the     *)
(* error "Missing required flag after this one!" and changes no modifier.  *)
(* It never changes anything else of the Instruction.                      *)
(***************************************************************************)
C19_ByLengthValidation ==
    is_some(run) =>
        \A n \in 1..Len(Seen.validations) :
            LET x == Seen.validations[n] IN
            x.command = "WordsConsiderLength" =>
                IF FlagsAfter(x) = {}
                THEN GaveError(x, "This flag can't be the last one!") /\ x.gave.inst = x.inst
                ELSE \A k \in FlagsAfter(x) :
                        IF x.inst[k].name \in {"-l", "--by-length"}
                        THEN GaveOk(x) /\ x.gave.inst = x.inst
                        ELSE IF x.inst[k].name \in {"-s", "--sorted", "-rs", "--reverse-sorted"}
                        THEN GaveOk(x) /\ x.gave.inst = [x.inst EXCEPT ![k].mod = 1]
                        ELSE /\ GaveError(x, "Missing required flag after this one!")
                             /\ x.gave.inst = x.inst

\* a first -l before a second, which comes before -rs: the first changes
\* nothing, the second sets the modifier of -rs
C19_Witness ==
    /\ is_some(run)
    /\ Seen.raw_args = <<"-l", "-l", "-rs">>
    /\ Len(Seen.validations) = 3
    /\ Seen.validations[1].gave.inst = Seen.validations[1].inst
    /\ Seen.validations[2].gave.inst[3].mod = 1
    /\ Seen.validations[2].inst[3].mod = 0

\* in the Instruction that the call x of validate was given, a flag follows
\* the flag of the call
Followed(x) == \E k \in 1..Len(x.inst) : x.inst[k].pos > x.flag.pos

(***************************************************************************)
(* C20: validation of -a/--anagrams and of -p/--palindromes.  It returns   *)
(* the error "This flag should be the last one" whenever a flag follows,   *)
(* with or without an argument; the error "This flag requires an           *)
(* argument!" when the flag is last and its argument empty; it succeeds    *)
(* only when the flag is last and has an argument.  It changes neither the *)
(* run state nor any flag.                                                 *)
(***************************************************************************)
C20_LastWithArgument ==
    is_some(run) =>
        \A n \in 1..Len(Seen.validations) :
            LET x == Seen.validations[n] IN
            x.command \in {"ShowAnagrams", "ShowPalindromes"} =>
                /\ IF Followed(x) THEN GaveError(x, "This flag should be the last one")
                   ELSE IF x.flag.arg = ""
                   THEN GaveError(x, "This flag requires an argument!")
                   ELSE GaveOk(x)
                /\ x.gave.inst = x.inst
                /\ x.gave.operations = x.operations

\* -a without an argument and with a flag after it: the error is that of the
\* place
C20_Witness ==
    /\ is_some(run)
    /\ Seen.raw_args = <<"-f", "a", "-a", "-w">>
    /\ Seen.ret = "[ERROR]: <-a> This flag should be the last one\n"

\* the call x of validate returned a success Output that bears a message
GaveMessage(x) == is_ok(x.gave.output) /\ x.gave.output.msg # ""

(***************************************************************************)
(* C21: a success Output with a message that a validate returns is added   *)
(* to the Outputs of the Engine and its line appears in the report.        *)
(***************************************************************************)
C21_ValidateOkReported ==
    is_some(run) =>
        \A n \in 1..Len(Seen.validations) :
            LET x == Seen.validations[n] IN
            GaveMessage(x) =>
                /\ InSeq(x.gave.output, Appended(Seen))
                /\ InSeq("[SUCCESS]: " \o x.gave.output.msg,
                         get_lines(Seen.report))

SingleInput(r) == size(r.parsed) = 1 /\ r.parsed[1].name \in {"-i", "--input"}

(***************************************************************************)
(* C23: input-redirection aborts.  When the Instruction is the single flag *)
(* -i/--input, an empty argument aborts with "<ENGINE> Input file flag     *)
(* requires an argument!" and otherwise a file that does not exist aborts  *)
(* with "<ENGINE> Input file flag has invalid file as an argument!"; each  *)
(* abort of the input redirection appends exactly one error Output, marks  *)
(* the run state as panicked, and neither looks up, validates nor executes *)
(* a flag.                                                                 *)
(***************************************************************************)
C23_RedirectionAborts ==
    is_some(run) =>
        /\ SingleInput(Seen) /\ is_empty(Seen.parsed[1]) =>
               /\ Seen.aborted
               /\ Appended(Seen) =
                      <<new_err("<ENGINE> Input file flag requires an argument!")>>
        /\ SingleInput(Seen) /\ ~is_empty(Seen.parsed[1])
              /\ ~File_exists(Seen.parsed[1].arg) =>
               /\ Seen.aborted
               /\ Appended(Seen) =
                      <<new_err("<ENGINE> Input file flag has invalid file as an argument!")>>
        /\ Seen.aborted =>
               /\ Len(Appended(Seen)) = 1
               /\ is_err(Appended(Seen)[1])
               /\ Seen.at_render.operations.is_panicked
               /\ Seen.resolved = <<>>
               /\ Seen.validated = <<>>
               /\ Seen.executed = <<>>

\* the run r, redirected to the file of its one flag, did in this step what
\* the call d of Engine::execute on the words of that file does on the same
\* Engine and files: the same calls of validate and of execute, the same
\* report, returned String and files; and no validate was called for an
\* input-file flag
AsDirect(r, d) ==
    /\ r.validations = d.seen.validations
    /\ r.executed = d.seen.executed
    /\ r.report = d.seen.report
    /\ r.ret = d.ret
    /\ files' = d.files
    /\ \A n \in 1..Len(r.validations) : r.validations[n].command # "InputFile"

\* the words of the file that the one flag of the run r names
RedirectedWords(r) == get_words(read_unchecked(r.parsed[1].arg))

(***************************************************************************)
(* C24, as claimed: a run whose Instruction is the single flag -i/--input  *)
(* with an existing file behaves exactly as Engine::execute called on the  *)
(* words of the file, whatever the file holds, and the -i flag is neither  *)
(* validated nor executed.                                                 *)
(***************************************************************************)
C24_RedirectedAsDirect ==
    [][calls' = calls + 1 /\ SingleInput(get_value(run')) /\ ~get_value(run').aborted =>
          \E g \in UninitPos :
              AsDirect(get_value(run'),
                       Engine_execute(RedirectedWords(get_value(run')), g))]_vars

(***************************************************************************)
(* C24, corrected: the same, for the files whose words hold no flag -i or  *)
(* --input.  The redirection is applied once: the flags read from the file *)
(* are not examined for an input-file flag again.                          *)
(***************************************************************************)
C24_RedirectedOnce ==
    [][(/\ calls' = calls + 1
        /\ SingleInput(get_value(run'))
        /\ ~get_value(run').aborted
        /\ ~InSeq("-i", RedirectedWords(get_value(run')))
        /\ ~InSeq("--input", RedirectedWords(get_value(run')))) =>
          \E g \in UninitPos :
              AsDirect(get_value(run'),
                       Engine_execute(RedirectedWords(get_value(run')), g))]_vars

\* the run -i a on a file a that holds -f a -w: the line of -w is reported
C24_Witness ==
    /\ is_some(run)
    /\ Seen.raw_args = <<"-i", "a">>
    /\ files["a"] = "-f a -w"
    /\ Len(Seen.validations) = 2
    /\ Seen.ret = "[SUCCESS]: <-w> Words: 3\n"

\* some entry of the registry has this caller
IsCaller(name) == \E k \in DOMAIN commands.callers : commands.callers[k] = name

(***************************************************************************)
(* C25: resolution priority.  The name of a flag is matched against the    *)
(* registered callers first, against the aliases only if no caller         *)
(* matches: in every run, the command that a flag is validated with, and   *)
(* executed with, has the name of the flag as its caller whenever some     *)
(* registered command has, and as its alias otherwise.  So when the name   *)
(* is one command's caller and another command's alias, the command that   *)
(* owns the caller is taken.                                               *)
(***************************************************************************)
C25_CallerBeforeAlias ==
    is_some(run) =>
        /\ \A n \in 1..Len(Seen.validations) :
               LET x == Seen.validations[n] IN
               IF IsCaller(x.flag.name) THEN caller(x.command) = x.flag.name
               ELSE alias(x.command) = x.flag.name
        /\ \A n \in 1..Len(Seen.executed) :
               LET x == Seen.executed[n] IN
               IF IsCaller(x.flag.name) THEN caller(x.command) = x.flag.name
               ELSE alias(x.command) = x.flag.name

\* --words is the alias of CountWords, registered first, and the caller of
\* Crossed: the flag --words runs Crossed
C25_Witness ==
    /\ is_some(run)
    /\ added = <<"CountWords", "Crossed">>
    /\ commands.id = 5
    /\ Seen.raw_args = <<"-f", "a", "--words">>
    /\ Seen.ret = "[SUCCESS]: <--words> Crossed\n"

\* the ids of the entries of the map m (callers or aliases) that hold name
Holding(m, name) == {k \in DOMAIN m : m[k] = name}

(***************************************************************************)
(* C26: resolution tie-break.  When several registered commands have the   *)
(* same caller (the same alias), get_by_caller (get_by_alias) returns the  *)
(* one registered first, the entry with the smallest id, for every order   *)
(* of registration.                                                        *)
(***************************************************************************)
C26_FirstRegisteredWins ==
    \A k \in DOMAIN commands.commands :
        /\ get_by_caller(commands, commands.callers[k])
               = some(commands.commands[Min(Holding(commands.callers, commands.callers[k]))])
        /\ get_by_alias(commands, commands.aliases[k])
               = some(commands.commands[Min(Holding(commands.aliases, commands.aliases[k]))])

\* the Output bears a message
Speaks(output) == output.msg # ""

\* the line of the report for an Output
LineOf(output) ==
    IF output.res = "Ok" THEN "[SUCCESS]: " \o output.msg ELSE "[ERROR]: " \o output.msg

\* the lines of the Outputs outs that bear a message, in their order
LinesFor(outs) ==
    [i \in 1..Len(SelectSeq(outs, Speaks)) |-> LineOf(SelectSeq(outs, Speaks)[i])]

(***************************************************************************)
(* C27: rendering.  The report holds one line per accumulated Output that  *)
(* bears a message, in the order of accumulation: "[SUCCESS]: <message>"   *)
(* for an Ok Output, "[ERROR]: <message>" otherwise, each ended by a line  *)
(* feed; an Output with an empty message gives no line, whatever its tag.  *)
(* It is the String that the call returns when no output file is set.      *)
(***************************************************************************)
C27_Rendering ==
    is_some(run) =>
        /\ get_lines(Seen.report) = LinesFor(Seen.at_render.outputs)
        /\ count_chars(Seen.report, 1, {"\n"}) = Len(LinesFor(Seen.at_render.outputs))
        /\ Seen.report # "" => SubSeq(Seen.report, Len(Seen.report), Len(Seen.report)) = "\n"
        /\ Seen.at_render.operations.file_out = "" => Seen.ret = Seen.report

\* the Outputs at rendering are an error without a message (the validate of
\* -r), and the error of the source: the report is one line
C27_Witness ==
    /\ is_some(run)
    /\ Seen.raw_args = <<"-r">>
    /\ Seen.at_render.outputs = <<new_err(""), SourceInvalid>>
    /\ Seen.ret = "[ERROR]: <ENGINE> Source file is invalid!\n"

IsSortName(name) == name \in {"-s", "--sorted", "-rs", "--reverse-sorted"}

IsLengthName(name) == name \in {"-l", "--by-length"}

\* in the Instruction inst, the flag k comes right after a flag -l/--by-length
AfterLength(inst, k) == k > 1 /\ IsLengthName(inst[k - 1].name)

(***************************************************************************)
(* C28: a modifier is changed only by the validation of another flag.  In  *)
(* every run every modifier is 0 or 1; a call of validate changes nothing  *)
(* of the Instruction but the modifier of a flag other than its own, which *)
(* becomes 1, and only the validate of -l/--by-length does; a flag -s,     *)
(* --sorted, -rs or --reverse-sorted is validated, and executed, with the  *)
(* modifier 1 exactly when the flag right before it in the Instruction is  *)
(* -l/--by-length.                                                         *)
(***************************************************************************)
C28_ModifierByPrecedingLength ==
    is_some(run) =>
        /\ \A k \in 1..Len(Seen.inst) : Seen.inst[k].mod \in {0, 1}
        /\ \A n \in 1..Len(Seen.validations) :
               LET x == Seen.validations[n] IN
               /\ x.flag = x.inst[n]
               /\ Len(x.gave.inst) = Len(x.inst)
               /\ x.gave.inst[n] = x.inst[n]
               /\ \A k \in 1..Len(x.inst) :
                      x.gave.inst[k] # x.inst[k] =>
                          /\ x.command = "WordsConsiderLength"
                          /\ x.inst[k].mod = 0
                          /\ x.gave.inst[k] = [x.inst[k] EXCEPT !.mod = 1]
               /\ IsSortName(x.flag.name) =>
                      (x.flag.mod = 1 <=> AfterLength(Seen.inst, n))
        /\ \A j \in 1..Len(Seen.executed) :
               LET x == Seen.executed[j] IN
               IsSortName(x.flag.name) =>
                   /\ Seen.inst[x.flag.pos + 1] = x.flag
                   /\ x.flag.mod = 1 <=> AfterLength(Seen.inst, x.flag.pos + 1)

\* -rs after -l is validated and executed with the modifier 1, and the words
\* b, aa, c of the source are reported with the longest first
C28_Witness ==
    /\ is_some(run)
    /\ Seen.raw_args = <<"-f", "a", "-l", "-rs">>
    /\ Seen.parsed[3].mod = 0
    /\ Seen.validations[3].flag = [name |-> "-rs", arg |-> "", pos |-> 2, mod |-> 1]
    /\ \E j \in 1..Len(Seen.executed) : Seen.executed[j].flag = Seen.validations[3].flag
    /\ SubSeq(Seen.ret, 1, 29) = "[SUCCESS]: <-rs> {\n    \"aa\",\n"

(***************************************************************************)
(* C29: validation of -f/--file.  With an empty argument it returns the    *)
(* error "This flag requires an argument!"; with an argument that names no *)
(* existing file, the error "Provided file doesn't exists!"; in both cases *)
(* it leaves file_in, source, file_out and is_panicked as they were.  Only *)
(* on success does it set file_in to the argument and source to what       *)
(* File::read_unchecked returns for that file, and nothing else.           *)
(***************************************************************************)
C29_SourceFileValidation ==
    [][calls' = calls + 1 =>
          \A n \in 1..Len(get_value(run').validations) :
              LET x == get_value(run').validations[n] IN
              x.command = "SourceFile" =>
                  IF x.flag.arg = ""
                  THEN /\ GaveError(x, "This flag requires an argument!")
                       /\ x.gave.operations = x.operations
                  ELSE IF ~File_exists(x.flag.arg)
                  THEN /\ GaveError(x, "Provided file doesn't exists!")
                       /\ x.gave.operations = x.operations
                  ELSE /\ GaveOk(x)
                       /\ x.gave.operations =
                              [file_in     |-> x.flag.arg,
                               source      |-> read_unchecked(x.flag.arg),
                               file_out    |-> x.operations.file_out,
                               is_panicked |-> x.operations.is_panicked]]_vars

\* -f with an argument of two tokens, which names no file: the run state is
\* left as it was
C29_Witness ==
    /\ is_some(run)
    /\ Seen.raw_args = <<"-f", "a", "a">>
    /\ Len(Seen.validations) = 1
    /\ Seen.validations[1].flag.arg = "a a"
    /\ Seen.validations[1].gave.operations = Operations
    /\ Seen.validations[1].gave.output = new_err("<-f> Provided file doesn't exists!")

(***************************************************************************)
(* C30: after every call of Engine::execute whose run state holds no       *)
(* output-file path at rendering, the Engine is reset: its Outputs list is *)
(* empty and its run state is a default Operations (file_in, file_out and  *)
(* source empty, is_panicked false), whether the run executed its commands *)
(* or aborted, at the input-file flag or in the validation pass.           *)
(***************************************************************************)
C30_ResetWithoutOutputFile ==
    [][calls' = calls + 1 /\ get_value(run').at_render.operations.file_out = "" =>
          /\ outputs' = <<>>
          /\ operations' =
                 [file_in |-> "", file_out |-> "", source |-> "", is_panicked |-> FALSE]]_vars

\* a run that read its source and executed its commands, and left the Engine
\* reset
C30_Witness ==
    /\ is_some(run)
    /\ Seen.executed # <<>>
    /\ Seen.at_render.operations.source # ""
    /\ Seen.at_render.operations.file_out = ""
    /\ Seen.at_render.outputs # <<>>
    /\ outputs = <<>>
    /\ operations = Operations

\* the run state holds an output file and is panicked
StuckPanicked(ops) == ops.is_panicked /\ ops.file_out # ""

FlagsOf(r, command) ==
    {k \in 1..Len(r.inst) : resolve(r.inst[k].name) = some(command)}

\* the Outputs that the executes of the run r returned, in the order of
\* execution
Ran(r) ==
    [j \in 1..Len(r.executed) |->
        execute(r.executed[j].command, r.executed[j].flag, r.at_render.operations)]

(***************************************************************************)
(* C32: within one run the execute of a command is invoked at most once.   *)
(* When several flags of the Instruction resolve to the same command, the  *)
(* execute is given the last of them, with its argument and modifier, and  *)
(* the Outputs that the run pushes are those of these executes only: the   *)
(* earlier flags give no line in the report.                               *)
(***************************************************************************)
C32_LastFlagOfCommandExecuted ==
    is_some(run) =>
        /\ \A i, j \in 1..Len(Seen.executed) :
               Seen.executed[i].command = Seen.executed[j].command => i = j
        /\ \A j \in 1..Len(Seen.executed) :
               /\ FlagsOf(Seen, Seen.executed[j].command) # {}
               /\ Seen.executed[j].flag
                      = Seen.inst[Max(FlagsOf(Seen, Seen.executed[j].command))]
        /\ ~Aborts(Seen) =>
               /\ {Seen.executed[j].command : j \in 1..Len(Seen.executed)}
                      = {get_value(resolve(Seen.inst[k].name)) : k \in 1..Len(Seen.inst)}
               /\ Appended(Seen) = SelectSeq(Ran(Seen), Speaks)

\* -w and --words resolve to CountWords: its execute is given --words, and
\* the report has the line of --words only
C32_Witness ==
    /\ is_some(run)
    /\ Seen.raw_args = <<"-f", "a", "-w", "--words">>
    /\ Len(Seen.validations) = 3
    /\ Len(Seen.executed) = 2
    /\ Seen.ret = "[SUCCESS]: <--words> Words: 3\n"

IsInputName(name) == name \in {"-i", "--input"}

IsRead(op) == op[1] = "read"

\* the call x of validate read a file
ReadAFile(x) == x.gave.io # <<>> /\ InSeq(<<"read", x.flag.arg>>, x.gave.io)

\* the error Outputs of the input redirection
RedirectionErrors ==
    {new_err("<ENGINE> Input file flag should be the only one!"),
     new_err("<ENGINE> Input file flag requires an argument!"),
     new_err("<ENGINE> Input file flag has invalid file as an argument!")}

(***************************************************************************)
(* C33: input redirection is applied at most once per run.  In a run whose *)
(* Instruction is the single flag -i/--input with an existing file, the    *)
(* flags validated are those made from the words of the file, whether or   *)
(* not a flag -i/--input is among them: the run does not abort at the      *)
(* input-file flag and pushes none of its three errors, and the only file  *)
(* read besides the redirected one is read by a validate of -f.  An        *)
(* -i/--input flag of the file resolves to InputFile, whose validate       *)
(* succeeds, reads nothing and changes neither the run state nor the       *)
(* Instruction, and whose execute gives an Output without a message.       *)
(***************************************************************************)
C33_RedirectionOnce ==
    [][(/\ calls' = calls + 1
        /\ SingleInput(get_value(run'))
        /\ ~is_empty(get_value(run').parsed[1])
        /\ File_exists(get_value(run').parsed[1].arg)) =>
          LET r == get_value(run') IN
          /\ ~r.aborted
          /\ [k \in 1..Len(r.inst) |-> r.inst[k].name]
                 = SelectSeq(RedirectedWords(r), IsFlagToken)
          /\ \A k \in 1..Len(Appended(r)) : Appended(r)[k] \notin RedirectionErrors
          /\ Len(SelectSeq(r.io, IsRead))
                 = 1 + Len(SelectSeq(r.validations, ReadAFile))
          /\ \A n \in 1..Len(r.validations) :
                 LET x == r.validations[n] IN
                 /\ ReadAFile(x) => x.command = "SourceFile"
                 /\ IsInputName(x.flag.name) =>
                        /\ x.command = "InputFile"
                        /\ GaveOk(x)
                        /\ x.gave.io = <<>>
                        /\ x.gave.operations = x.operations
                        /\ x.gave.inst = x.inst
          /\ \A j \in 1..Len(r.executed) :
                 IsInputName(r.executed[j].flag.name) =>
                     /\ r.executed[j].command = "InputFile"
                     /\ execute("InputFile", r.executed[j].flag, r.at_render.operations)
                            = new_ok("")]_vars

\* the file a holds -i b -f a -w: its flag -i b is validated and executed as
\* any flag, b is not read, and the words counted are those of a
C33_Witness ==
    /\ is_some(run)
    /\ Seen.raw_args = <<"-i", "a">>
    /\ files["a"] = "-i b -f a -w"
    /\ Seen.validations[1].flag.name = "-i"
    /\ Seen.validations[1].flag.arg = "b"
    /\ Len(Seen.executed) = 3
    /\ Seen.io = << <<"exists", "a">>, <<"read", "a">>, <<"exists", "a">>, <<"read", "a">> >>
    /\ Seen.ret = "[SUCCESS]: <-w> Words: 5\n"

====
